---- MODULE Spec2Model ----
(***************************************************************************)
(* A model of the vidapp capture / metadata-extraction / trim-and-export   *)
(* pipeline: the clip library of VideoEditor.vue, its metadata extraction  *)
(* (loadVideo, loadVideoFromBlob), its export job (exportVideo) and the    *)
(* recording session of VideoRecorder.vue.                                 *)
(*                                                                         *)
(* Time on a clip's timeline is counted in ticks: SliderStep ticks are the *)
(* 0.1 s step of the trim sliders, so a second is TicksPerSecond ticks.    *)
(* Wall-clock time (Date.now()) is counted in milliseconds.                *)
(* Arithmetic is exact: the double rounding of trim * 30 (for instance     *)
(* Math.floor(4.1 * 30) = 122) is not modelled.                            *)
(***************************************************************************)
EXTENDS Integers, Sequences, FiniteSets, Bags, TLC

\* ------------------------------------------------------------------ bounds
\* Object URLs (= extractions started) in one run.
MaxUrls == 2

\* Clips in the library the library specification starts from.
MaxVideos == 3

\* MediaRecorder objects constructed (= startRecording calls that found a codec).
MaxRecorders == 2
\* Steps of ClockStep milliseconds the wall clock takes.
MaxClock == 3

\* exportVideo calls that get past the empty-list check.
MaxExports == 1

\* exportVideo calls in flight at once, where exports overlap.
MaxConcurrent == 2

\* The largest total a render event reports.
MaxTotal == 7

\* ------------------------------------------------------- program constants
\* ref<...|null>(null): the null reference (object URLs are numbered from 1).
Null == 0
\* :step="0.1" of both trim sliders, in ticks.
SliderStep == 2
TicksPerSecond == SliderStep * 10
\* The reference rate of Math.floor(trim * 30).
ReferenceRate == 30

UrlIds == 1..MaxUrls
\* video.duration as the playback element reports it once the seek settled.
Durations == {3, 6}
\* video.videoWidth / video.videoHeight as the playback element reports them.
Resolutions == {<<640, 480>>}
\* Declared MIME types, as <<major, minor>>.
DeclaredTypes == {<<"video", "mp4">>, <<"audio", "webm">>}

\* The period of window.setInterval(..., 1000), in milliseconds.
TickInterval == 1000
\* The wall clock is observed every half period.
ClockStep == TickInterval \div 2
\* Values typed into the max-duration input, in seconds.
Caps == {0, 1}

\* The candidate MIME types of getBestSupportedMimeType, as <<container, codecs>>.
types ==
  << <<"webm", "vp9,opus">>, <<"webm", "vp8,opus">>, <<"webm", "">>,
     <<"mp4", "h264,aac">>, <<"mp4", "">> >>
\* The empty string getBestSupportedMimeType falls back to.
NoMime == <<"", "">>
\* What MediaRecorder.isTypeSupported accepts, on the platforms considered.
Platforms == {{}, {types[i] : i \in 1..5}, {types[4], types[5]}}

Min(a, b) == IF a < b THEN a ELSE b

\* file.type.startsWith("video/")
startsWithVideo(type) == type[1] = "video"

VARIABLES
  videos,         \* ref<VideoMetadata[]>: the sequence of clip objects (by identity)
  clips,          \* the VideoMetadata objects that are still referenced, by identity
  videoMetadata,  \* ref<VideoMetadata|null>: the selected clip object
  videoUrl,       \* ref<string|null>: the selected clip's URL
  videoDuration,  \* ref(0): the sliders' max
  trimStart,      \* ref(0): the start slider's value
  trimEnd,        \* ref(0): the end slider's value
  objectUrls,     \* URL.createObjectURL / revokeObjectURL: url -> "live" | "revoked"
  extractions,    \* the closures of the extraction promises, by the URL they created
  lastCall        \* the handler that ran last, its argument and its outcome

VARIABLES
  stream,                 \* ref<MediaStream|null>
  mediaRecorder,          \* ref<MediaRecorder|null>: the recorder constructed last
  recorders,              \* the MediaRecorder objects, by identity
  recordedChunks,         \* ref<Blob[]>: each chunk named by the recorder it came from
  isRecording,            \* ref(false)
  recordedVideo,          \* ref<Blob|null>
  recordingStartTime,     \* ref(0)
  recordingDurationInMs,  \* ref(0)
  currentDuration,        \* ref("0:00"), as <<minutes, seconds>>
  maxDuration,            \* ref(0), in seconds
  durationInterval,       \* the timer handle, or null
  timers,                 \* the interval timers that are running
  wakeLock,               \* the WakeLockSentinel reference, or null
  held,                   \* the wake locks the platform holds for the page
  releasing,              \* the release() promises whose then-callback has not run
  starting,               \* the startRecording calls suspended at await requestWakeLock()
  finalizing,             \* the bag of onstop handlers suspended at await fixWebmDuration()
  emitted,                \* the recording-complete events emitted
  now,                    \* Date.now()
  mounted                 \* the component is mounted

VARIABLES
  exportProgress,   \* ref<number|null>
  trimStartTime,    \* ref(0): Date.now() when the export began
  trimDuration,     \* ref(""): the elapsed display
  exports,          \* the exportVideo calls, each at the await it is suspended at
  delivered         \* the composition the encoder rendered last, and where to

exportVars == <<exportProgress, trimStartTime, trimDuration, exports, delivered>>

recorderVars ==
  <<stream, mediaRecorder, recorders, recordedChunks, isRecording, recordedVideo,
    recordingStartTime, recordingDurationInMs, currentDuration, maxDuration,
    durationInterval, timers, wakeLock, held, releasing, starting, finalizing,
    emitted, mounted>>

editorVars == <<videos, clips, videoMetadata, videoUrl, videoDuration, trimStart,
                trimEnd, objectUrls, extractions>>
vars == <<editorVars, exportVars, recorderVars, now, lastCall>>

\* A clip object's identity is the object URL its extraction created: each
\* extraction creates one URL and builds at most one VideoMetadata with it.
nextUrl == Cardinality(DOMAIN objectUrls) + 1

\* ------------------------------------------------------------ the library
\* The valid values of a range input with min 0, max videoDuration, step 0.1.
SliderValues(max) == {v \in 0..max : v % SliderStep = 0}

\* videos.value.splice(index, 1)
splice(vids, index) == [i \in 1..(Len(vids) - 1) |-> IF i < index THEN vids[i] ELSE vids[i + 1]]

\* videos.value.push(metadata)
\* A variant of push: the clip is put first.
unshift(vids, v) == <<v>> \o vids

\* A variant of push: the clip is put in twice.
pushTwice(vids, v) == vids \o <<v, v>>

push(vids, v) == Append(vids, v)

\* Variants of notFound: the selected clip is never, or always, taken as removed.
notFoundNever(vids, selected) == FALSE
notFoundAlways(vids, selected) == TRUE

\* !videos.value.find((v) => v.url === videoMetadata.value?.url)
notFound(vids, selected) == \A i \in 1..Len(vids) : vids[i] # selected

\* A variant of clearsSelection: && for ||.
clearsSelectionBoth(url, vids) == url = Null /\ Len(vids) = 0

\* videoUrl.value === null || videos.value.length === 0
clearsSelection(url, vids) == url = Null \/ Len(vids) = 0

\* A variant of newIndex: the previous clip, or the first one at the start.
newIndexPrevious(index, vids) == IF index > 1 THEN index - 1 ELSE 1

\* Math.min(index, videos.value.length - 1), on 1-based positions
newIndex(index, vids) == Min(index, Len(vids))

\* The objects other than `keep` that nothing references any more are collected.
collect(heap, keep) == [u \in (DOMAIN heap) \cap keep |-> heap[u]]

\* videos.value[index]: undefined (null here) outside the array.
at(vids, index) == IF index \in 1..Len(vids) THEN vids[index] ELSE Null

\* Reading video.url of undefined throws before anything is assigned.
selectVideo(video) ==
  IF video = Null
  THEN UNCHANGED <<videoUrl, videoMetadata, videoDuration, trimStart, trimEnd>>
  ELSE /\ videoUrl' = video
       /\ videoMetadata' = video
       /\ videoDuration' = clips[video].videoDuration
       /\ trimStart' = clips[video].trimStart
       /\ trimEnd' = clips[video].trimEnd

\* A variant of handleTrimChange: the bounds are written into every clip.
handleTrimChangeAll(start, end) ==
  clips' = [u \in DOMAIN clips |-> [clips[u] EXCEPT !.trimStart = start, !.trimEnd = end]]

handleTrimChange(start, end) ==
  IF videoMetadata = Null
  THEN UNCHANGED clips
  ELSE clips' = [clips EXCEPT ![videoMetadata].trimStart = start,
                              ![videoMetadata].trimEnd = end]

Range(s) == {s[i] : i \in 1..Len(s)}

\* URL.revokeObjectURL(url)
\* A variant of revokeObjectURL: the handle is kept.
keepObjectURL(urls, url) == urls

revokeObjectURL(urls, url) == [urls EXCEPT ![url] = "revoked"]

\* The handler that is running, and whether the clip it was called on is the
\* selected one. Only the handlers a property asks about are told apart.
Call(op, target) ==
  [op |-> op, onSelected |-> (target # Null /\ target = videoMetadata)]
Quiet == [op |-> "", onSelected |-> FALSE]

\* The clips the loops of the running exports hold in videoMeta.
iterated == {exports[x].videoMeta : x \in DOMAIN exports}

deleteVideo(index) ==
  LET url == videos[index]
      rest == splice(videos, index)
  IN /\ objectUrls' = revokeObjectURL(objectUrls, url)
     /\ videos' = rest
     /\ IF clearsSelection(videoUrl, rest)
        THEN /\ videoUrl' = Null
             /\ videoMetadata' = Null
             /\ UNCHANGED <<videoDuration, trimStart, trimEnd>>
        ELSE IF videoMetadata # Null /\ notFound(rest, videoMetadata)
             THEN selectVideo(at(rest, newIndex(index, rest)))
             ELSE UNCHANGED <<videoUrl, videoMetadata, videoDuration, trimStart, trimEnd>>
     /\ clips' = collect(clips, Range(rest) \cup {videoMetadata'} \cup iterated)

\* ------------------------------------------------------- metadata extraction
\* const blobUrl = URL.createObjectURL(...); new Promise(...): the closure of one
\* extraction. `element` is the hidden playback element: "loading" until it has
\* delivered a signal, then "settled" (seeked) or "errored".
newExtraction ==
  [metadataLoaded |-> FALSE, onseeked |-> TRUE, resolved |-> "pending",
   element |-> "loading"]

\* Once the element has failed it delivers nothing more: its handlers and their
\* closure are collected, and only the promise's result stays observable.
collected(result) ==
  [metadataLoaded |-> FALSE, onseeked |-> FALSE, resolved |-> result,
   element |-> "errored"]

\* resolve(value): a promise settles once; later calls change nothing.
resolve(r, value) == IF r = "pending" THEN value ELSE r

\* The metadata object the seeked handler builds.
\* (name, size, type and the formatted duration are only displayed: left out.)
newMetadata(duration, resolution) ==
  [trimStart |-> 0, trimEnd |-> duration, videoDuration |-> duration,
   width |-> resolution[1], height |-> resolution[2]]

beginExtraction ==
  /\ nextUrl <= MaxUrls
  /\ objectUrls' = objectUrls @@ (nextUrl :> "live")
  /\ extractions' = extractions @@ (nextUrl :> newExtraction)
  /\ UNCHANGED <<videos, clips, videoMetadata, videoUrl, videoDuration, trimStart, trimEnd>>

loadVideoFromBlob(type) ==
  /\ beginExtraction
  /\ lastCall' = Quiet

loadVideo(type) ==
  IF ~startsWithVideo(type)
  THEN /\ lastCall' = Quiet
       /\ UNCHANGED editorVars
  ELSE /\ beginExtraction
       /\ lastCall' = Quiet

\* A variant of alreadyLoaded: the handler never takes itself as having run.
neverLoaded(extraction) == FALSE

\* if (metadataLoaded)
alreadyLoaded(extraction) == extraction.metadataLoaded

\* video.onseeked of extraction e, the element reporting `duration` and `resolution`.
onseeked(e, duration, resolution) ==
  /\ extractions[e].onseeked
  /\ extractions[e].element \in {"loading", "settled"}
  /\ lastCall' = Quiet
  /\ IF alreadyLoaded(extractions[e])
     THEN /\ extractions' = [extractions EXCEPT ![e].onseeked = FALSE]
          /\ UNCHANGED <<videos, clips, videoMetadata, videoUrl, videoDuration,
                         trimStart, trimEnd, objectUrls>>
     ELSE LET metadata == newMetadata(duration, resolution)
          IN /\ videos' = push(videos, e)
             /\ clips' = clips @@ (e :> metadata)
             /\ videoMetadata' = e
             /\ videoUrl' = e
             /\ videoDuration' = metadata.videoDuration
             /\ trimStart' = metadata.trimStart
             /\ trimEnd' = metadata.trimEnd
             /\ extractions' = [extractions EXCEPT
                                  ![e].metadataLoaded = TRUE,
                                  ![e].resolved = resolve(@, "true"),
                                  ![e].element = "settled"]
             /\ UNCHANGED objectUrls

\* video.onerror of extraction e.
onerror(e) ==
  /\ extractions[e].element \in {"loading", "settled"}
  /\ lastCall' = Quiet
  /\ objectUrls' = revokeObjectURL(objectUrls, e)
  /\ extractions' = [extractions EXCEPT
                       ![e] = collected(resolve(extractions[e].resolved, "false"))]
  /\ UNCHANGED <<videos, clips, videoMetadata, videoUrl, videoDuration, trimStart, trimEnd>>

\* ------------------------------------------------------------- UI handlers
\* The start slider: v-model.number="trimStart", then @input="handleTrimChange".
startSliderInput(v) ==
  /\ videoUrl # Null
  /\ v # trimStart
  /\ trimStart' = v
  /\ handleTrimChange(v, trimEnd)
  /\ lastCall' = Quiet
  /\ UNCHANGED <<videos, videoMetadata, videoUrl, videoDuration, trimEnd, objectUrls,
                 extractions>>

\* The end slider: v-model.number="trimEnd", then @input="handleTrimChange".
endSliderInput(v) ==
  /\ videoUrl # Null
  /\ v # trimEnd
  /\ trimEnd' = v
  /\ handleTrimChange(trimStart, v)
  /\ lastCall' = Quiet
  /\ UNCHANGED <<videos, videoMetadata, videoUrl, videoDuration, trimStart, objectUrls,
                 extractions>>

\* @click="selectVideo(video)" on the list entry at `index`.
selectVideoClick(index) ==
  /\ selectVideo(videos[index])
  /\ lastCall' = Quiet
  /\ UNCHANGED <<videos, clips, objectUrls, extractions>>

\* selectVideo(video) called with any metadata object there is, in the list or not.
selectVideoCall(video) ==
  /\ selectVideo(video)
  /\ lastCall' = Quiet
  /\ UNCHANGED <<videos, clips, objectUrls, extractions>>

\* @click="deleteVideo(index)" on the list entry at `index`.
deleteVideoClick(index) ==
  /\ deleteVideo(index)
  /\ lastCall' = Call("deleteVideo", videos[index])
  /\ UNCHANGED extractions

\* ------------------------------------------------------------------ export
\* exportProgress.value = null
NoProgress == -1

\* `${minutes}:${remainingSeconds.toString().padStart(2, "0")}`; "" is <<>>.
formatTime(seconds) == <<seconds \div 60, seconds % 60>>

\* Math.floor(time * 30), for a time in ticks.
Frames(time) == (time * ReferenceRate) \div TicksPerSecond

\* Math.floor((Date.now() - trimStartTime.value) / 1000)
exportSeconds == (now - trimStartTime) \div 1000

\* The value of 0 / 0, which Math.round leaves as it is.
NaN == -2

\* Math.round((progress * 100) / total)
progressPercent(progress, total) ==
  IF total = 0 THEN NaN ELSE (2 * progress * 100 + total) \div (2 * total)

\* A variant of isEmpty: the list is never taken as empty.
neverEmpty(vids) == FALSE

\* videos.value.length === 0
isEmpty(vids) == Len(vids) = 0

\* An exportVideo call that has returned.
returned ==
  [pc |-> "returned", index |-> 0, videoMeta |-> Null, clip |-> <<>>, track |-> <<>>,
   called |-> <<>>]

nextExport == Cardinality(DOMAIN exports) + 1

NoDelivery == [track |-> <<>>, to |-> ""]

\* The source frames a clip on the track contributes: the clip's timeline is
\* shifted by offset, then clamped to the subrange [lower, upper).
included(clip) ==
  {f \in 0..(clip.length - 1) : clip.lower <= f + clip.offset /\ f + clip.offset < clip.upper}

\* The frames of a stacked track: each clip begins where the one before it ends.
timelineLength(track) ==
  LET sum[i \in 0..Len(track)] ==
        IF i = 0 THEN 0 ELSE sum[i - 1] + Cardinality(included(track[i]))
  IN sum[Len(track)]

\* The head of the loop `for (const videoMeta of videos.value)`: the iterator
\* reads the array as it is now. After the loop the encoder is built and
\* window.showSaveFilePicker is called.
\* `called` records the array as it was when exportVideo was called.
iterate(x, index, track, called) ==
  IF index <= Len(videos)
  THEN [pc |-> "source", index |-> index, videoMeta |-> videos[index],
        clip |-> <<>>, track |-> track, called |-> called]
  ELSE [pc |-> "picker", index |-> index, videoMeta |-> Null, clip |-> <<>>,
        track |-> track, called |-> called]

\* A variant of exportFailed: the elapsed display is left as it is.
exportFailedKeepsDisplay(x) ==
  /\ exportProgress' = NoProgress
  /\ exports' = x
  /\ lastCall' = [op |-> "ExportFailed", onSelected |-> FALSE]
  /\ UNCHANGED <<trimDuration, delivered>>

\* The catch block of exportVideo.
exportFailed(x) ==
  /\ exportProgress' = NoProgress
  /\ trimDuration' = <<>>
  /\ exports' = x
  /\ lastCall' = [op |-> "ExportFailed", onSelected |-> FALSE]
  /\ UNCHANGED delivered

\* exportVideo up to the first await.
exportVideo(limit) ==
  IF isEmpty(videos)
  THEN /\ lastCall' = [op |-> "exportVideo", onSelected |-> FALSE]
       /\ UNCHANGED exportVars
  ELSE /\ nextExport <= limit
       /\ trimStartTime' = now
       /\ IF at(videos, 1) = Null
          THEN exportFailed(exports @@ (nextExport :> returned))
          ELSE /\ exportProgress' = 0
               /\ trimDuration' = <<>>
               /\ exports' = exports @@ (nextExport :> iterate(nextExport, 1, <<>>, videos))
               /\ lastCall' = [op |-> "exportVideo", onSelected |-> FALSE]
               /\ UNCHANGED delivered

\* await core.VideoSource.from(videoMeta.url) settles; the clip is built from
\* the trim range videoMeta holds now.
sourceLoaded(x, ok) ==
  LET job == exports[x]
      videoMeta == clips[job.videoMeta]
      startFrame == Frames(videoMeta.trimStart)
      endFrame == Frames(videoMeta.trimEnd)
  IN /\ job.pc = "source"
     /\ UNCHANGED trimStartTime
     /\ IF ok /\ objectUrls[job.videoMeta] = "live"
        THEN /\ exports' = [exports EXCEPT ![x].pc = "add", ![x].clip =
                   [source |-> job.videoMeta,
                    trimStart |-> videoMeta.trimStart, trimEnd |-> videoMeta.trimEnd,
                    length |-> Frames(videoMeta.videoDuration),
                    offset |-> -1 * startFrame, lower |-> 0, upper |-> endFrame]]
             /\ lastCall' = Quiet
             /\ UNCHANGED <<exportProgress, trimDuration, delivered>>
        ELSE exportFailed([exports EXCEPT ![x] = returned])

\* await track.add(video) settles.
clipAdded(x, ok) ==
  LET job == exports[x]
  IN /\ job.pc = "add"
     /\ UNCHANGED trimStartTime
     /\ IF ok
        THEN /\ exports' = [exports EXCEPT
                             ![x] = iterate(x, job.index + 1, Append(job.track, job.clip),
                                            job.called)]
             /\ lastCall' = Quiet
             /\ UNCHANGED <<exportProgress, trimDuration, delivered>>
        ELSE exportFailed([exports EXCEPT ![x] = returned])

\* await window.showSaveFilePicker(...) settles: encoder.render(fileHandle), or
\* encoder.render(suggestedName) from the inner catch.
\* A variant of afterPicker: without a file handle the export is given up.
afterPickerOnly(chosen) == IF chosen THEN "render" ELSE "returned"

\* A variant of afterPicker: without a file handle the picker is shown again.
afterPickerAgain(chosen) == IF chosen THEN "render" ELSE "picker"

\* try { ...render(fileHandle) } catch { ...render(suggestedName) }
afterPicker(chosen) == IF chosen THEN "render" ELSE "fallback"

pickerSettled(x, chosen) ==
  /\ exports[x].pc = "picker"
  /\ exports' = [exports EXCEPT ![x].pc = afterPicker(chosen)]
  /\ lastCall' = Quiet
  /\ UNCHANGED <<exportProgress, trimStartTime, trimDuration, delivered>>

\* encoder.on("render", ...): the encoder reports `progress` frames of `total`.
onRender(x, progress, total) ==
  /\ exports[x].pc \in {"render", "fallback"}
  /\ progress \in 0..total
  /\ exportProgress' = progressPercent(progress, total)
  /\ trimDuration' = formatTime(exportSeconds)
  /\ lastCall' = Quiet
  /\ UNCHANGED <<trimStartTime, exports, delivered>>

\* await encoder.render(...) settles. A failure of render(fileHandle) is caught
\* by the inner catch, which renders to the suggested name.
renderSettled(x, ok) ==
  LET job == exports[x]
  IN /\ job.pc \in {"render", "fallback"}
     /\ UNCHANGED trimStartTime
     /\ IF ok
        THEN /\ delivered' = [track |-> job.track,
                              to |-> IF job.pc = "render" THEN "fileHandle" ELSE "suggestedName"]
             /\ trimDuration' = formatTime(exportSeconds)
             /\ exportProgress' = NoProgress
             /\ exports' = [exports EXCEPT ![x] = returned]
             /\ lastCall' = [op |-> "ExportCompleted", onSelected |-> FALSE]
        ELSE IF job.pc = "render"
             THEN /\ exports' = [exports EXCEPT ![x].pc = "fallback"]
                  /\ lastCall' = Quiet
                  /\ UNCHANGED <<exportProgress, trimDuration, delivered>>
             ELSE exportFailed([exports EXCEPT ![x] = returned])

\* ------------------------------------------------------ recording session
\* A variant of getBestSupportedMimeType: the first candidate, supported or not.
firstType(supported) == types[1]

\* A variant of getBestSupportedMimeType: the last supported candidate.
lastSupportedType(supported) ==
  LET found == {i \in 1..Len(types) : types[i] \in supported}
  IN IF found = {} THEN NoMime
     ELSE types[CHOOSE i \in found : \A j \in found : i >= j]

\* types.find((type) => MediaRecorder.isTypeSupported(type)) || ""
getBestSupportedMimeType(supported) ==
  LET found == {i \in 1..Len(types) : types[i] \in supported}
  IN IF found = {} THEN NoMime
     ELSE types[CHOOSE i \in found : \A j \in found : i <= j]

\* mimeType.startsWith("video/webm")
startsWithWebm(mimeType) == mimeType[1] = "webm"

\* `${minutes}:${remainingSeconds.toString().padStart(2, "0")}`
formatDuration(seconds) == <<seconds \div 60, seconds % 60>>

\* Math.floor((Date.now() - recordingStartTime.value) / 1000)
elapsedSeconds == (now - recordingStartTime) \div 1000

calculateDuration ==
  IF mediaRecorder = Null THEN formatDuration(0) ELSE formatDuration(elapsedSeconds)

\* new MediaRecorder(stream, {mimeType}): no handler set, nothing to deliver.
\* startTime and stopTime record Date.now() when the recorder was constructed
\* and when it last turned inactive.
\* onstop holds the mimeType its closure captured, once it is assigned
\* (ondataavailable is assigned with it).
newRecorder(mimeType) ==
  [state |-> "inactive", mimeType |-> mimeType, tracksLive |-> TRUE,
   onstop |-> NoMime, pending |-> <<>>, startTime |-> now, stopTime |-> now]

nextRecorder == Cardinality(DOMAIN recorders) + 1

\* MediaRecorder.stop(): nothing on an inactive recorder; otherwise the recorder
\* turns inactive and a dataavailable and then a stop event are queued.
stopped(recorder) ==
  IF recorder.state = "inactive" THEN recorder
  ELSE [recorder EXCEPT !.state = "inactive", !.pending = <<"dataavailable", "stop">>,
                        !.stopTime = now]

\* ref<Blob|null>(null): the value of recordedVideo before any recording ended.
NoBlob == [chunks |-> <<>>, type |-> NoMime, fixed |-> -1]

\* navigator.mediaDevices.getUserMedia resolves: the Start Camera button is shown
\* while stream is null.
startCamera(granted) ==
  /\ mounted
  /\ stream = Null
  /\ stream' = IF granted THEN 1 ELSE Null
  /\ lastCall' = Quiet
  /\ UNCHANGED <<mediaRecorder, recorders, recordedChunks, isRecording, recordedVideo,
                 recordingStartTime, recordingDurationInMs, currentDuration, maxDuration,
                 durationInterval, timers, wakeLock, held, releasing, starting,
                 finalizing, emitted, mounted>>

\* The Stop Camera button is disabled while isRecording: every track of the
\* stream is stopped, so the recorders built on it have no live track left.
stopCamera ==
  /\ mounted
  /\ stream # Null
  /\ ~isRecording
  /\ recorders' = [r \in DOMAIN recorders |-> [recorders[r] EXCEPT !.tracksLive = FALSE]]
  /\ stream' = Null
  /\ lastCall' = Quiet
  /\ UNCHANGED <<mediaRecorder, recordedChunks, isRecording, recordedVideo,
                 recordingStartTime, recordingDurationInMs, currentDuration, maxDuration,
                 durationInterval, timers, wakeLock, held, releasing, starting,
                 finalizing, emitted, mounted>>

\* v-model:maxDuration of DurationInput, disabled while isRecording.
setMaxDuration(value) ==
  /\ mounted
  /\ ~isRecording
  /\ value # maxDuration
  /\ maxDuration' = value
  /\ lastCall' = Quiet
  /\ UNCHANGED <<stream, mediaRecorder, recorders, recordedChunks, isRecording,
                 recordedVideo, recordingStartTime, recordingDurationInMs,
                 currentDuration, durationInterval, timers, wakeLock, held, releasing,
                 starting, finalizing, emitted, mounted>>

\* startRecording up to await requestWakeLock(). The Start Recording button is
\* disabled while !stream || isRecording.
startRecording(supported) ==
  LET mimeType == getBestSupportedMimeType(supported)
  IN /\ mounted
     /\ stream # Null
     /\ ~isRecording
     /\ IF mimeType = NoMime
        THEN /\ lastCall' = [op |-> "NoSupportedCodec", onSelected |-> FALSE]
             /\ UNCHANGED recorderVars
        ELSE /\ nextRecorder <= MaxRecorders
             /\ recordedChunks' = <<>>
             /\ mediaRecorder' = nextRecorder
             /\ recorders' = recorders @@ (nextRecorder :> newRecorder(mimeType))
             /\ recordingStartTime' = now
             /\ starting' = starting \cup {nextRecorder}
             /\ lastCall' = Quiet
             /\ UNCHANGED <<stream, isRecording, recordedVideo, recordingDurationInMs,
                            currentDuration, maxDuration, durationInterval, timers,
                            wakeLock, held, releasing, finalizing, emitted, mounted>>

\* A variant of requestWakeLock without its catch: a refused request rejects.
requestWakeLockUncaught(granted) == IF granted THEN "fulfilled" ELSE "rejected"

\* How the promise of requestWakeLock() settles: its try/catch logs a refused or
\* unsupported request, so the promise is fulfilled either way.
requestWakeLock(granted) == "fulfilled"

\* startRecording from the point requestWakeLock() has settled: the call that
\* constructed recorder `call` resumes. requestWakeLock assigned wakeLock if the
\* lock was granted; the timer, the handlers and start() go to the recorder
\* mediaRecorder refers to now. start() throws on a recorder that is not inactive.
\* On a stream whose tracks have all ended, start() throws on some platforms and
\* starts the recorder on others: `started` is which.
startRecordingResumed(call, granted, started) ==
  LET recorder == recorders[mediaRecorder]
  IN /\ call \in starting
     /\ (recorder.state # "inactive" \/ recorder.tracksLive) => started
     /\ starting' = starting \ {call}
     /\ wakeLock' = IF granted THEN call ELSE wakeLock
     /\ held' = IF granted THEN held \cup {call} ELSE held
     /\ IF requestWakeLock(granted) = "rejected"
        THEN UNCHANGED <<durationInterval, timers, recorders, isRecording>>
        ELSE /\ durationInterval' = call
             /\ timers' = timers \cup {call}
             /\ IF recorder.state = "inactive" /\ started
                THEN /\ recorders' = [recorders EXCEPT
                                        ![mediaRecorder].onstop = recorders[call].mimeType,
                                        ![mediaRecorder].state = "recording"]
                     /\ isRecording' = TRUE
                ELSE /\ recorders' = [recorders EXCEPT
                                        ![mediaRecorder].onstop = recorders[call].mimeType]
                     /\ UNCHANGED isRecording
     /\ lastCall' = Quiet
     /\ UNCHANGED <<stream, mediaRecorder, recordedChunks, recordedVideo,
                    recordingStartTime, recordingDurationInMs, currentDuration,
                    maxDuration, releasing, finalizing, emitted, mounted>>

\* releaseWakeLock(): release() is called on the sentinel wakeLock refers to; its
\* then-callback runs later.
releasedBy(locks) == IF wakeLock = Null THEN locks ELSE locks \ {wakeLock}
releaseStarted(pending) == IF wakeLock = Null THEN pending ELSE pending \cup {wakeLock}

\* What stopRecording writes.
stopVars ==
  <<recorders, isRecording, durationInterval, timers, recordingDurationInMs, held,
    releasing>>

\* A variant of stopRecording that does not look at isRecording.
stopRecordingAlways ==
  IF mediaRecorder # Null
  THEN /\ recorders' = [recorders EXCEPT ![mediaRecorder] = stopped(@)]
       /\ isRecording' = FALSE
       /\ IF durationInterval # Null
          THEN /\ timers' = timers \ {durationInterval}
               /\ durationInterval' = Null
          ELSE UNCHANGED <<timers, durationInterval>>
       /\ recordingDurationInMs' = now - recordingStartTime
       /\ held' = releasedBy(held)
       /\ releasing' = releaseStarted(releasing)
  ELSE UNCHANGED stopVars

stopRecording ==
  IF mediaRecorder # Null /\ isRecording
  THEN /\ recorders' = [recorders EXCEPT ![mediaRecorder] = stopped(@)]
       /\ isRecording' = FALSE
       /\ IF durationInterval # Null
          THEN /\ timers' = timers \ {durationInterval}
               /\ durationInterval' = Null
          ELSE UNCHANGED <<timers, durationInterval>>
       /\ recordingDurationInMs' = now - recordingStartTime
       /\ held' = releasedBy(held)
       /\ releasing' = releaseStarted(releasing)
  ELSE UNCHANGED stopVars

\* A variant of capReached: a cap of 0 counts as a cap.
capOfZero == elapsedSeconds >= maxDuration

\* A variant of capReached: the cap is never taken as reached.
capIgnored == FALSE

\* maxDuration.value > 0 && currentSeconds >= maxDuration.value
capReached == maxDuration > 0 /\ elapsedSeconds >= maxDuration

\* The callback of window.setInterval, for any timer that is running.
tick ==
  /\ timers # {}
  /\ currentDuration' = calculateDuration
  /\ IF capReached THEN stopRecording ELSE UNCHANGED stopVars
  /\ lastCall' = IF capReached /\ mediaRecorder # Null /\ isRecording
                 THEN [op |-> "capReached", onSelected |-> FALSE] ELSE Quiet
  /\ UNCHANGED <<stream, mediaRecorder, recordedChunks, recordedVideo,
                 recordingStartTime, maxDuration, wakeLock, starting, finalizing,
                 emitted, mounted>>

\* The Stop Recording button, disabled while !isRecording.
stopRecordingClick ==
  /\ mounted
  /\ isRecording
  /\ stopRecording
  /\ lastCall' = Quiet
  /\ UNCHANGED <<stream, mediaRecorder, recordedChunks, recordedVideo,
                 recordingStartTime, currentDuration, maxDuration, wakeLock, starting,
                 finalizing, emitted, mounted>>

\* wakeLock.release().then(() => { wakeLock = null; })
releaseResolved(lock) ==
  /\ lock \in releasing
  /\ releasing' = releasing \ {lock}
  /\ wakeLock' = Null
  /\ lastCall' = Quiet
  /\ UNCHANGED <<stream, mediaRecorder, recorders, recordedChunks, isRecording,
                 recordedVideo, recordingStartTime, recordingDurationInMs,
                 currentDuration, maxDuration, durationInterval, timers, held, starting,
                 finalizing, emitted, mounted>>

\* The platform stops a recorder whose stream has no live track left.
tracksEnded(r) ==
  /\ recorders[r].state = "recording"
  /\ ~recorders[r].tracksLive
  /\ recorders' = [recorders EXCEPT ![r] = stopped(@)]
  /\ lastCall' = Quiet
  /\ UNCHANGED <<stream, mediaRecorder, recordedChunks, isRecording, recordedVideo,
                 recordingStartTime, recordingDurationInMs, currentDuration, maxDuration,
                 durationInterval, timers, wakeLock, held, releasing, starting,
                 finalizing, emitted, mounted>>

\* mediaRecorder.ondataavailable: the recorder delivers what it gathered.
ondataavailable(r, size) ==
  /\ recorders[r].pending # <<>>
  /\ Head(recorders[r].pending) = "dataavailable"
  /\ recorders' = [recorders EXCEPT ![r].pending = Tail(@)]
  /\ recordedChunks' =
       IF recorders[r].onstop # NoMime /\ size > 0
       THEN Append(recordedChunks, r) ELSE recordedChunks
  /\ lastCall' = Quiet
  /\ UNCHANGED <<stream, mediaRecorder, isRecording, recordedVideo,
                 recordingStartTime, recordingDurationInMs, currentDuration, maxDuration,
                 durationInterval, timers, wakeLock, held, releasing, starting,
                 finalizing, emitted, mounted>>

\* new Blob(recordedChunks.value, {type: mimeType})
newBlob(chunks, mimeType) == [chunks |-> chunks, type |-> mimeType, fixed |-> -1]

\* fixWebmDuration(blob, duration): the blob with its duration field rewritten.
fixWebmDuration(blob, duration) == [blob EXCEPT !.fixed = duration]

\* The end of onstop: recordedVideo.value = blob; emit("recording-complete", ...).
\* (The recorder's own videoMetadata is only displayed: left out.)
finalize(blob, mimeType) ==
  /\ recordedVideo' = blob
  /\ emitted' = Append(emitted, [blob |-> blob, mimeType |-> mimeType])

\* mediaRecorder.onstop up to await fixWebmDuration(), or to its end when the
\* type is not webm.
onstop(r) ==
  LET mimeType == recorders[r].onstop
      blob == newBlob(recordedChunks, mimeType)
  IN /\ recorders[r].pending # <<>>
     /\ Head(recorders[r].pending) = "stop"
     /\ recorders' = [recorders EXCEPT ![r].pending = Tail(@)]
     /\ IF mimeType = NoMime
        THEN UNCHANGED <<recordedVideo, emitted, finalizing>>
        ELSE IF startsWithWebm(mimeType)
             THEN /\ finalizing' = finalizing (+) SetToBag(
                       {[recorder |-> r, blob |-> blob, duration |-> recordingDurationInMs]})
                  /\ UNCHANGED <<recordedVideo, emitted>>
             ELSE /\ finalize(blob, mimeType)
                  /\ UNCHANGED finalizing
     /\ lastCall' = Quiet
     /\ UNCHANGED <<stream, mediaRecorder, recordedChunks, isRecording,
                    recordingStartTime, recordingDurationInMs, currentDuration,
                    maxDuration, durationInterval, timers, wakeLock, held, releasing,
                    starting, mounted>>

\* onstop from the point fixWebmDuration() has settled; a rejection is not caught.
onstopResumed(f, fulfilled) ==
  /\ BagIn(f, finalizing)
  /\ finalizing' = finalizing (-) SetToBag({f})
  /\ IF fulfilled
     THEN finalize(fixWebmDuration(f.blob, f.duration), f.blob.type)
     ELSE UNCHANGED <<recordedVideo, emitted>>
  /\ lastCall' = Quiet
  /\ UNCHANGED <<stream, mediaRecorder, recorders, recordedChunks, isRecording,
                 recordingStartTime, recordingDurationInMs, currentDuration, maxDuration,
                 durationInterval, timers, wakeLock, held, releasing, starting, mounted>>

\* onUnmounted of the recorder: the tracks are stopped, the timer durationInterval
\* refers to is cleared, and releaseWakeLock() is called.
onUnmounted ==
  /\ mounted
  /\ mounted' = FALSE
  /\ recorders' = IF stream = Null THEN recorders
                  ELSE [r \in DOMAIN recorders |-> [recorders[r] EXCEPT !.tracksLive = FALSE]]
  /\ timers' = IF durationInterval # Null THEN timers \ {durationInterval} ELSE timers
  /\ held' = releasedBy(held)
  /\ releasing' = releaseStarted(releasing)
  /\ lastCall' = Quiet
  /\ UNCHANGED <<stream, mediaRecorder, recordedChunks, isRecording, recordedVideo,
                 recordingStartTime, recordingDurationInMs, currentDuration, maxDuration,
                 durationInterval, wakeLock, starting, finalizing, emitted>>

\* Date.now() moves on.
clockAdvances ==
  /\ now < MaxClock * ClockStep
  /\ now' = now + ClockStep

\* ------------------------------------------------------------ specification
EditorInit ==
  /\ videos = <<>>
  /\ clips = <<>>
  /\ videoMetadata = Null
  /\ videoUrl = Null
  /\ videoDuration = 0
  /\ trimStart = 0
  /\ trimEnd = 0
  /\ objectUrls = <<>>
  /\ extractions = <<>>

ExportInit ==
  /\ exportProgress = NoProgress
  /\ trimStartTime = 0
  /\ trimDuration = <<>>
  /\ exports = <<>>
  /\ delivered = NoDelivery

RecorderInit ==
  /\ stream = Null
  /\ mediaRecorder = Null
  /\ recorders = <<>>
  /\ recordedChunks = <<>>
  /\ isRecording = FALSE
  /\ recordedVideo = NoBlob
  /\ recordingStartTime = 0
  /\ recordingDurationInMs = 0
  /\ currentDuration = formatDuration(0)
  /\ maxDuration = 0
  /\ durationInterval = Null
  /\ timers = {}
  /\ wakeLock = Null
  /\ held = {}
  /\ releasing = {}
  /\ starting = {}
  /\ finalizing = EmptyBag
  /\ emitted = <<>>
  /\ mounted = TRUE

Init ==
  /\ EditorInit
  /\ ExportInit
  /\ RecorderInit
  /\ now = 0
  /\ lastCall = Quiet

\* A handler of the editor leaves the recorder and the clock alone.
Editor(handler) == handler /\ UNCHANGED <<exportVars, recorderVars, now>>
\* A step of exportVideo leaves the library and the recorder alone.
Exporter(handler) == handler /\ UNCHANGED <<editorVars, recorderVars, now>>
\* A handler of the recorder leaves the editor and the clock alone.
Recorder(handler) == handler /\ UNCHANGED <<editorVars, exportVars, now>>

FileSelected == Editor(\E type \in DeclaredTypes : loadVideo(type))
RecordingLoaded == Editor(\E type \in DeclaredTypes : loadVideoFromBlob(type))
SeekSettled ==
  Editor(\E e \in DOMAIN extractions, duration \in Durations, resolution \in Resolutions :
           onseeked(e, duration, resolution))
ElementError == Editor(\E e \in DOMAIN extractions : onerror(e))
StartSlider == Editor(\E v \in SliderValues(videoDuration) : startSliderInput(v))
EndSlider == Editor(\E v \in SliderValues(videoDuration) : endSliderInput(v))
SelectClicked == Editor(\E index \in 1..Len(videos) : selectVideoClick(index))
DeleteClicked == Editor(\E index \in 1..Len(videos) : deleteVideoClick(index))

CameraStarted == Recorder(\E granted \in BOOLEAN : startCamera(granted))
CameraStopped == Recorder(stopCamera)
MaxDurationTyped == Recorder(\E value \in Caps : setMaxDuration(value))
RecordingStarted == Recorder(\E supported \in Platforms : startRecording(supported))
WakeLockSettled ==
  Recorder(\E call \in starting, granted \in BOOLEAN, started \in BOOLEAN :
             startRecordingResumed(call, granted, started))
Tick == Recorder(tick)
RecordingStopped == Recorder(stopRecordingClick)
WakeLockReleased == Recorder(\E lock \in releasing : releaseResolved(lock))
TracksEnded == Recorder(\E r \in DOMAIN recorders : tracksEnded(r))
DataAvailable ==
  Recorder(\E r \in DOMAIN recorders, size \in {0, 1} : ondataavailable(r, size))
RecorderStopped == Recorder(\E r \in DOMAIN recorders : onstop(r))
DurationFixed ==
  Recorder(\E f \in BagToSet(finalizing), fulfilled \in BOOLEAN : onstopResumed(f, fulfilled))
Unmounted == Recorder(onUnmounted)
ClockAdvanced ==
  clockAdvances /\ UNCHANGED <<editorVars, exportVars, recorderVars, lastCall>>

ExportRequested == Exporter(exportVideo(MaxExports))
SourceLoaded == Exporter(\E x \in DOMAIN exports, ok \in BOOLEAN : sourceLoaded(x, ok))
ClipAdded == Exporter(\E x \in DOMAIN exports, ok \in BOOLEAN : clipAdded(x, ok))
PickerSettled ==
  Exporter(\E x \in DOMAIN exports, chosen \in BOOLEAN : pickerSettled(x, chosen))
RenderProgressed ==
  Exporter(\E x \in DOMAIN exports :
             LET total == timelineLength(exports[x].track)
             IN total > 0 /\ \E progress \in {1, total} : onRender(x, progress, total))
RenderSettled == Exporter(\E x \in DOMAIN exports, ok \in BOOLEAN : renderSettled(x, ok))

Next ==
  \/ FileSelected
  \/ RecordingLoaded
  \/ SeekSettled
  \/ ElementError
  \/ StartSlider
  \/ EndSlider
  \/ SelectClicked
  \/ DeleteClicked

Spec == Init /\ [][Next]_vars

\* ------------------------------------------- the recording session on its own
\* The handlers that start and stop a recording. None of them reads what the
\* handlers of the recorder's events write (the queue of events to deliver,
\* recordedChunks, recordedVideo, the suspended onstop handlers, the events
\* emitted), so the control of a session is the same with or without them.
ControlNext ==
  \/ CameraStarted
  \/ CameraStopped
  \/ MaxDurationTyped
  \/ RecordingStarted
  \/ WakeLockSettled
  \/ Tick
  \/ RecordingStopped
  \/ WakeLockReleased
  \/ TracksEnded
  \/ Unmounted
  \/ ClockAdvanced

SpecControl == Init /\ [][ControlNext]_vars

\* window.setInterval keeps calling its callback until the timer is cleared.
SpecControlFair == SpecControl /\ WF_vars(Tick)

\* The session with the events its recorders deliver.
RecorderNext ==
  \/ ControlNext
  \/ DataAvailable
  \/ RecorderStopped
  \/ DurationFixed

SpecRecorder == Init /\ [][RecorderNext]_vars

\* The sessions of a recorder that stays mounted with its camera on, with the
\* events its recorders deliver.
SessionNext ==
  \/ CameraStarted
  \/ MaxDurationTyped
  \/ RecordingStarted
  \/ WakeLockSettled
  \/ Tick
  \/ RecordingStopped
  \/ WakeLockReleased
  \/ DataAvailable
  \/ RecorderStopped
  \/ DurationFixed
  \/ ClockAdvanced

SpecSession == Init /\ [][SessionNext]_vars

\* ------------------------------------------ the recorder and the editor in App
\* emit("recording-complete", ...) calls App's handleRecordingComplete before it
\* returns: the handler calls loadVideoFromBlob with the event's blob and type.
handleRecordingComplete ==
  IF emitted' # emitted
  THEN loadVideoFromBlob(emitted'[Len(emitted')].mimeType)
  ELSE UNCHANGED editorVars

RecorderStoppedInApp ==
  /\ \E r \in DOMAIN recorders : onstop(r)
  /\ handleRecordingComplete
  /\ UNCHANGED <<exportVars, now>>

DurationFixedInApp ==
  /\ \E f \in BagToSet(finalizing), fulfilled \in BOOLEAN : onstopResumed(f, fulfilled)
  /\ handleRecordingComplete
  /\ UNCHANGED <<exportVars, now>>

AppNext ==
  \/ CameraStarted
  \/ RecordingStarted
  \/ WakeLockSettled
  \/ RecordingStopped
  \/ DataAvailable
  \/ RecorderStoppedInApp
  \/ DurationFixedInApp
  \/ SeekSettled
  \/ ElementError
  \/ DeleteClicked

SpecApp == Init /\ [][AppNext]_vars

\* ------------------------------------------ recordings on any platform
\* Every answer MediaRecorder.isTypeSupported can give over the candidates.
AllPlatforms == SUBSET {types[i] : i \in 1..Len(types)}

RecordingStartedAnywhere ==
  Recorder(\E supported \in AllPlatforms : startRecording(supported))

MimeNext ==
  \/ CameraStarted
  \/ RecordingStartedAnywhere
  \/ WakeLockSettled
  \/ RecordingStopped
  \/ DataAvailable
  \/ RecorderStopped
  \/ DurationFixed

SpecMime == Init /\ [][MimeNext]_vars

\* The timer keeps calling its callback, a recorder delivers the events it has
\* queued, and fixWebmDuration settles.
SpecSessionFair ==
  /\ SpecSession
  /\ WF_vars(Tick)
  /\ WF_vars(DataAvailable)
  /\ WF_vars(RecorderStopped)
  /\ WF_vars(DurationFixed)

\* ------------------------------------------------- the library on its own
\* The closure of an extraction whose seek has settled.
settled ==
  [metadataLoaded |-> TRUE, onseeked |-> TRUE, resolved |-> "true", element |-> "settled"]

\* The states sliders can leave a clip in: both sliders move independently over
\* the slider values, and trimEnd starts at the duration.
ClipStates ==
  UNION {{[trimStart |-> s, trimEnd |-> e, videoDuration |-> d,
           width |-> r[1], height |-> r[2]] :
            s \in SliderValues(d), e \in SliderValues(d) \cup {d}} :
         d \in Durations, r \in Resolutions}

\* A library of MaxVideos imported clips, any of them selected.
LibraryInit ==
  /\ videos = [i \in 1..MaxVideos |-> i]
  /\ clips \in [1..MaxVideos -> ClipStates]
  /\ videoMetadata \in 1..MaxVideos
  /\ videoUrl = videoMetadata
  /\ videoDuration = clips[videoMetadata].videoDuration
  /\ trimStart = clips[videoMetadata].trimStart
  /\ trimEnd = clips[videoMetadata].trimEnd
  /\ objectUrls = [u \in 1..MaxVideos |-> "live"]
  /\ extractions = [u \in 1..MaxVideos |-> settled]
  /\ ExportInit
  /\ RecorderInit
  /\ now = 0
  /\ lastCall = Quiet

LibraryNext ==
  \/ StartSlider
  \/ EndSlider
  \/ SelectClicked
  \/ DeleteClicked

SpecLibrary == LibraryInit /\ [][LibraryNext]_vars

\* ------------------------------------------------- exports of a library
ExportNext ==
  \/ ExportRequested
  \/ SourceLoaded
  \/ ClipAdded
  \/ PickerSettled
  \/ RenderProgressed
  \/ RenderSettled
  \/ DeleteClicked
  \/ ClockAdvanced

\* The clips of the libraries exported: a short clip as imported, and a long one
\* with its start trimmed, or its start and its end.
ExportClips ==
  {clip \in ClipStates :
     \/ clip.videoDuration = 3 /\ clip.trimStart = 0 /\ clip.trimEnd = 3
     \/ clip.videoDuration = 6 /\ clip.trimStart = 2 /\ clip.trimEnd \in {4, 6}}

ExportLibraryInit == LibraryInit /\ \A u \in 1..MaxVideos : clips[u] \in ExportClips

SpecExport == ExportLibraryInit /\ [][ExportNext]_vars

\* Exports whose encoder reports any pair (progress, total) with
\* 0 <= progress <= total <= MaxTotal.
RenderProgressedAny ==
  Exporter(\E x \in DOMAIN exports, total \in 0..MaxTotal :
             \E progress \in 0..total : onRender(x, progress, total))

ProgressNext ==
  \/ ExportRequested
  \/ SourceLoaded
  \/ ClipAdded
  \/ PickerSettled
  \/ RenderProgressedAny
  \/ RenderSettled
  \/ ClockAdvanced

SpecProgress == ExportLibraryInit /\ [][ProgressNext]_vars

\* Exports that overlap: the Export button stays enabled while an export runs.
ExportRequestedAgain == Exporter(exportVideo(MaxConcurrent))

ConcurrentNext ==
  \/ ExportRequestedAgain
  \/ SourceLoaded
  \/ ClipAdded
  \/ PickerSettled
  \/ RenderProgressed
  \/ RenderSettled

SpecConcurrent == ExportLibraryInit /\ [][ConcurrentNext]_vars

\* Each awaited call of exportVideo (VideoSource.from, track.add,
\* showSaveFilePicker, encoder.render) settles.
SpecExportFair ==
  /\ SpecExport
  /\ WF_vars(SourceLoaded)
  /\ WF_vars(ClipAdded)
  /\ WF_vars(PickerSettled)
  /\ WF_vars(RenderSettled)

\* ---------------------------------------------------------------- properties
\* ------------------------------------ selectVideo called from outside the list
\* The library after the clip imported last was deleted, its metadata object
\* still held by whoever is about to call selectVideo with it.
DetachedInit ==
  /\ videos = [i \in 1..(MaxVideos - 1) |-> i]
  /\ clips \in [1..MaxVideos -> ExportClips]
  /\ videoMetadata \in 1..(MaxVideos - 1)
  /\ videoUrl = videoMetadata
  /\ videoDuration = clips[videoMetadata].videoDuration
  /\ trimStart = clips[videoMetadata].trimStart
  /\ trimEnd = clips[videoMetadata].trimEnd
  /\ objectUrls = [u \in 1..MaxVideos |-> IF u = MaxVideos THEN "revoked" ELSE "live"]
  /\ extractions = [u \in 1..MaxVideos |-> settled]
  /\ ExportInit
  /\ RecorderInit
  /\ now = 0
  /\ lastCall = Quiet

SelectCalled == Editor(\E video \in DOMAIN clips : selectVideoCall(video))

DetachedNext ==
  \/ LibraryNext
  \/ SelectCalled

SpecDetached == DetachedInit /\ [][DetachedNext]_vars

InLibrary(clip) == \E i \in 1..Len(videos) : videos[i] = clip

\* C1: every clip of the library satisfies 0 <= trimStart <= trimEnd <= videoDuration,
\* in every reachable state, so after every handleTrimChange of the two sliders.
C1_TrimRange ==
  \A i \in 1..Len(videos) :
    LET clip == clips[videos[i]]
    IN 0 <= clip.trimStart /\ clip.trimStart <= clip.trimEnd
       /\ clip.trimEnd <= clip.videoDuration

\* C2: the selected clip (videoMetadata, videoUrl), if not null, is an entry of videos.
C2_SelectionPresent ==
  /\ videoMetadata # Null => InLibrary(videoMetadata)
  /\ videoUrl # Null => InLibrary(videoUrl)

\* C2's case: the selected clip was deleted and another one took the selection.
C2_Witness ==
  lastCall.op = "deleteVideo" /\ lastCall.onSelected /\ videoMetadata # Null

\* C3: deleteVideo on a library whose only entry is the selected one leaves videos
\* empty and both videoMetadata and videoUrl null.
C3_DeleteOnlyEntry ==
  [][(lastCall'.op = "deleteVideo" /\ Len(videos) = 1 /\ videoMetadata = videos[1])
       => (videos' = <<>> /\ videoMetadata' = Null /\ videoUrl' = Null)]_vars

\* C3's case: the last entry, which was selected, has been deleted.
C3_Witness ==
  lastCall.op = "deleteVideo" /\ lastCall.onSelected /\ videos = <<>>

\* C4: deleteVideo(i) of a clip that is not the selected one leaves videoMetadata,
\* videoUrl and the displayed trim values unchanged.
C4_DeleteOtherKeepsSelection ==
  [][(lastCall'.op = "deleteVideo" /\ ~lastCall'.onSelected)
       => UNCHANGED <<videoMetadata, videoUrl, videoDuration, trimStart, trimEnd>>]_vars

\* C4's case: a clip other than the selected one has been deleted.
C4_Witness ==
  lastCall.op = "deleteVideo" /\ ~lastCall.onSelected /\ videoMetadata # Null

C10_NonVideoRejected ==
  [][\A type \in DeclaredTypes :
       (~startsWithVideo(type) /\ (loadVideo(type) \/ loadVideoFromBlob(type)))
         => UNCHANGED editorVars]_vars

\* C6: exportVideo called with an empty clip list changes nothing: exportProgress
\* and the elapsed display keep their values, no export is begun, and so neither
\* the encoder nor the save picker is reached.
C6_ExportEmptyNoOp ==
  [][(videos = <<>> /\ Exporter(exportVideo(MaxExports))) => UNCHANGED exportVars]_vars

C6_Witness ==
  /\ lastCall.op = "exportVideo"
  /\ videos = <<>>
  /\ now > trimStartTime

\* C7: every clip of a rendered composition contributes exactly the source
\* frames [floor(trimStart*30), floor(trimEnd*30)), so the timeline is as long
\* as the sum of floor(trimEnd*30) - floor(trimStart*30) over its clips.
trimmedFrames(clip) == Frames(clip.trimStart)..(Frames(clip.trimEnd) - 1)

C7_TrimmedFrames ==
  /\ \A i \in 1..Len(delivered.track) :
       included(delivered.track[i]) = trimmedFrames(delivered.track[i])
  /\ LET sum[i \in 0..Len(delivered.track)] ==
           IF i = 0 THEN 0
           ELSE sum[i - 1] + Frames(delivered.track[i].trimEnd)
                  - Frames(delivered.track[i].trimStart)
     IN timelineLength(delivered.track) = sum[Len(delivered.track)]

\* The session is stopped: the recorder is inactive, isRecording is false and the
\* timer handle is cleared.
sessionStopped ==
  /\ ~isRecording
  /\ durationInterval = Null
  /\ mediaRecorder # Null
  /\ recorders[mediaRecorder].state = "inactive"

\* C8: while the mounted recorder is recording with maxDuration > 0 and the wall
\* clock has reached the cap, the ticks alone eventually stop the session: the
\* recorder is stopped, isRecording is false and the timer handle is cleared.
C8_CapStopsRecording ==
  (mounted /\ isRecording /\ maxDuration > 0
     /\ now - recordingStartTime >= maxDuration * 1000)
    ~> (~mounted \/ sessionStopped)

C8_Witness ==
  /\ lastCall.op = "capReached"
  /\ mounted
  /\ sessionStopped
  /\ maxDuration > 0
  /\ now - recordingStartTime >= maxDuration * 1000

\* C9: startRecording on a platform that supports none of the candidate types
\* yields the no-supported-codec outcome and leaves isRecording, mediaRecorder,
\* recordedChunks, recordingStartTime, the timer and the wake lock unchanged.
C9_NoSupportedCodec ==
  [][(Recorder(startRecording({})))
       => /\ lastCall'.op = "NoSupportedCodec"
          /\ UNCHANGED <<isRecording, mediaRecorder, recorders, recordedChunks,
                         recordingStartTime, durationInterval, timers, wakeLock,
                         held, releasing, starting>>]_vars

C9_Witness ==
  /\ lastCall.op = "NoSupportedCodec"
  /\ stream # Null
  /\ mediaRecorder # Null

\* C11: when the playback element reports an error before the seek has settled,
\* the extraction resolves with false, the object URL it allocated is revoked,
\* and the library, the selection and the trim display are unchanged.
C11_ErrorBeforeSeek ==
  [][\A e \in DOMAIN extractions :
       (extractions[e].element = "loading" /\ Editor(onerror(e)))
         => /\ extractions'[e].resolved = "false"
            /\ objectUrls'[e] = "revoked"
            /\ UNCHANGED <<videos, clips, videoMetadata, videoUrl, videoDuration,
                           trimStart, trimEnd>>]_vars

C11_Witness ==
  /\ videos # <<>>
  /\ \E e \in DOMAIN extractions :
       /\ extractions[e].resolved = "false"
       /\ objectUrls[e] = "revoked"
       /\ \A i \in 1..Len(videos) : videos[i] # e

C13_AddAppendsAndSelects ==
  [][\A e \in DOMAIN extractions :
       (extractions[e].resolved = "pending" /\ extractions'[e].resolved = "true")
         => /\ videos' = Append(videos, e)
            /\ \A u \in DOMAIN clips : clips'[u] = clips[u]
            /\ videoMetadata' = e
            /\ videoUrl' = e
            /\ clips'[e].trimStart = 0
            /\ clips'[e].trimEnd = clips'[e].videoDuration
            /\ clips'[e].videoDuration \in Durations
            /\ trimStart' = 0
            /\ trimEnd' = clips'[e].videoDuration
            /\ videoDuration' = clips'[e].videoDuration]_vars

\* The second clip was added after the first had been trimmed.
C13_Witness ==
  /\ Len(videos) = 2
  /\ videoMetadata = videos[2]
  /\ extractions[videos[2]].resolved = "true"
  /\ trimStart = 0
  /\ trimEnd = videoDuration
  /\ clips[videos[1]].trimEnd < clips[videos[1]].videoDuration

C15_TrimOnlySelected ==
  [][(Editor(\E v \in SliderValues(videoDuration) : startSliderInput(v))
        \/ Editor(\E v \in SliderValues(videoDuration) : endSliderInput(v)))
       => /\ DOMAIN clips' = DOMAIN clips
          /\ \A u \in DOMAIN clips : u # videoMetadata => clips'[u] = clips[u]
          /\ videoMetadata = Null => clips' = clips
          /\ videoMetadata # Null =>
               clips'[videoMetadata] =
                 [clips[videoMetadata] EXCEPT !.trimStart = trimStart', !.trimEnd = trimEnd']]_vars

\* The selected clip was trimmed in a library where another clip keeps the
\* range it was imported with.
C15_Witness ==
  /\ Len(videos) = 2
  /\ videoMetadata # Null
  /\ clips[videoMetadata].trimStart > 0
  /\ clips[videoMetadata].trimEnd < clips[videoMetadata].videoDuration
  /\ \E i \in 1..2 :
       /\ videos[i] # videoMetadata
       /\ clips[videos[i]].trimStart = 0
       /\ clips[videos[i]].trimEnd = clips[videos[i]].videoDuration

\* C16: the camera is never released while a recording is active: in every
\* state, isRecording implies that the capture stream is not null.
C16_CameraHeldWhileRecording == isRecording => stream # Null

\* C17: when fixWebmDuration rejects while a webm recording is finalized, the
\* session still sets recordedVideo and emits recording-complete, with the
\* uncorrected blob.
C17_FixFailureStillEmits ==
  [][\A f \in BagToSet(finalizing) :
       Recorder(onstopResumed(f, FALSE))
         => /\ recordedVideo' = f.blob
            /\ emitted' = Append(emitted, [blob |-> f.blob, mimeType |-> f.blob.type])]_vars

\* C18: a recording that was started and then stopped eventually emits its
\* recording-complete event: once the first recorder has been stopped, an
\* event is emitted.
C18_StoppedRecordingEmits ==
  (emitted = <<>> /\ \E r \in DOMAIN recorders : recorders[r].pending # <<>>)
    ~> (emitted # <<>>)

\* C19: stopRecording on an active recording, from the button or from the tick
\* that finds the cap reached, leaves isRecording false, the recorder inactive
\* and durationInterval null, and starts the release of the wake lock: when a
\* lock is held, release() is called on a lock that was held.
C19_StopRecordingEffects ==
  [][(isRecording /\ mediaRecorder # Null
        /\ (Recorder(stopRecordingClick) \/ (capReached /\ Recorder(tick))))
       => /\ ~isRecording'
          /\ recorders'[mediaRecorder].state = "inactive"
          /\ durationInterval' = Null
          /\ held # {} => \E lock \in held : lock \in releasing' /\ lock \notin held']_vars

\* C20: when showSaveFilePicker is missing, throws or is cancelled, exportVideo
\* goes on to render under the generated name, and when that render succeeds
\* the export ends as it does after a render to a file handle: exportProgress
\* null, the elapsed time displayed, the same composition delivered.
C20_PickerFallback ==
  [][\A x \in DOMAIN exports :
       /\ (exports[x].pc = "picker" /\ Exporter(pickerSettled(x, FALSE)))
            => /\ exports'[x] = [exports[x] EXCEPT !.pc = "fallback"]
               /\ UNCHANGED <<exportProgress, trimDuration, delivered>>
       /\ (exports[x].pc \in {"render", "fallback"} /\ Exporter(renderSettled(x, TRUE)))
            => /\ exportProgress' = NoProgress
               /\ trimDuration' = formatTime(exportSeconds)
               /\ delivered'.track = exports[x].track
               /\ delivered'.to =
                    (IF exports[x].pc = "render" THEN "fileHandle" ELSE "suggestedName")
               /\ exports'[x].pc = "returned"
               /\ lastCall'.op = "ExportCompleted"]_vars

C20_Witness ==
  /\ lastCall.op = "ExportCompleted"
  /\ delivered.to = "suggestedName"
  /\ delivered.track # <<>>
  /\ exportProgress = NoProgress
  /\ trimDuration # <<>>

\* C21: an exportVideo call returns once, in one of two states: on success
\* exportProgress is null and the elapsed display holds the final elapsed time;
\* on a failure of source loading, track add or the generated-name render,
\* exportProgress is null, the elapsed display is empty and the failure is
\* reported. A call that has returned changes no more.
C21_ExportTerminalStates ==
  [][\A x \in DOMAIN exports :
       /\ exports[x].pc = "returned" => exports'[x] = exports[x]
       /\ (exports[x].pc # "returned" /\ exports'[x].pc = "returned")
            => \/ /\ lastCall'.op = "ExportCompleted"
                  /\ exportProgress' = NoProgress
                  /\ trimDuration' = formatTime((now - trimStartTime) \div 1000)
                  /\ delivered'.track = exports[x].track
               \/ /\ lastCall'.op = "ExportFailed"
                  /\ exportProgress' = NoProgress
                  /\ trimDuration' = <<>>
                  /\ delivered' = delivered]_vars

\* An export failed after a render event had filled the display.
C21_Witness ==
  /\ lastCall.op = "ExportFailed"
  /\ exportProgress = NoProgress
  /\ trimDuration = <<>>
  /\ \E x \in DOMAIN exports : exports[x].pc = "returned"
  /\ now > trimStartTime

\* C22: no automatic retry: when encoder.render fails on the destination the
\* user chose, the exportVideo call ends there and no second render is begun.
C22_NoSecondRender ==
  [][\A x \in DOMAIN exports :
       (exports[x].pc = "render" /\ Exporter(renderSettled(x, FALSE)))
         => /\ exports'[x].pc = "returned"
            /\ lastCall'.op = "ExportFailed"]_vars

\* C23: an exportVideo call that got past the empty-list check reaches its end,
\* completed or failed, with exportProgress null, provided every call it awaits
\* settles.
C23_ExportTerminates ==
  \A x \in 1..MaxExports :
    (x \in DOMAIN exports /\ exports[x].pc # "returned")
      ~> (x \in DOMAIN exports /\ exports[x].pc = "returned" /\ exportProgress = NoProgress)

C23_Witness ==
  /\ \E x \in DOMAIN exports : exports[x].pc = "returned"
  /\ exportProgress = NoProgress
  /\ lastCall.op = "ExportCompleted"
  /\ delivered # NoDelivery

\* C24: when the wake-lock request is refused or unsupported, startRecording
\* goes on all the same: its timer is set, and a recorder that start() accepts
\* is recording with isRecording true, while the call acquires no lock.
C24_WakeLockFailureNotFatal ==
  [][\A call \in starting :
       (/\ recorders[mediaRecorder].state = "inactive"
        /\ Recorder(startRecordingResumed(call, FALSE, TRUE)))
         => /\ recorders'[mediaRecorder].state = "recording"
            /\ isRecording'
            /\ durationInterval' = call
            /\ call \in timers'
            /\ held' = held
            /\ wakeLock' = wakeLock]_vars

C24_Witness ==
  /\ isRecording
  /\ releasing = {}
  /\ DOMAIN recorders = {1}
  /\ held = {}
  /\ wakeLock = Null
  /\ starting = {}
  /\ mediaRecorder # Null
  /\ recorders[mediaRecorder].state = "recording"
  /\ durationInterval \in timers

\* C25: on every set of supported types that is not empty, startRecording builds
\* its recorder with the first supported type in the order webm vp9+opus, webm
\* vp8+opus, webm, mp4 h264+aac, mp4; and on a platform whose answers do not
\* change, the blob built when that recorder stops, and the event that carries
\* it, have the recorder's type.
SamePlatform ==
  \A r1 \in DOMAIN recorders, r2 \in DOMAIN recorders :
    recorders[r1].mimeType = recorders[r2].mimeType

C25_FirstSupportedType ==
  [][/\ \A supported \in AllPlatforms :
          (supported # {} /\ Recorder(startRecording(supported)))
            => /\ mediaRecorder' \notin DOMAIN recorders
               /\ \E i \in 1..Len(types) :
                    /\ types[i] \in supported
                    /\ \A j \in 1..(i - 1) : types[j] \notin supported
                    /\ recorders'[mediaRecorder'].mimeType = types[i]
     /\ \A r \in DOMAIN recorders :
          (SamePlatform /\ recorders[r].onstop # NoMime /\ Recorder(onstop(r)))
            => IF recorders[r].mimeType[1] = "webm"
               THEN \E f \in BagToSet(finalizing') :
                      /\ f.recorder = r
                      /\ f.blob.type = recorders[r].mimeType
                      /\ CopiesIn(f, finalizing') = CopiesIn(f, finalizing) + 1
               ELSE /\ Len(emitted') = Len(emitted) + 1
                    /\ emitted'[Len(emitted')].blob.type = recorders[r].mimeType
                    /\ emitted'[Len(emitted')].mimeType = recorders[r].mimeType
     /\ \A f \in BagToSet(finalizing) :
          Recorder(onstopResumed(f, TRUE))
            => /\ Len(emitted') = Len(emitted) + 1
               /\ emitted'[Len(emitted')].blob.type = f.blob.type
               /\ emitted'[Len(emitted')].mimeType = f.blob.type]_vars

C25_Witness ==
  /\ emitted # <<>>
  /\ emitted[1].mimeType = types[2]
  /\ emitted[1].blob.type = types[2]
  /\ \E r \in DOMAIN recorders : recorders[r].mimeType = types[5]

\* C26: each recording-complete event begins one extraction; an extraction that
\* succeeds appends its clip to the library once and selects it, and never adds
\* it again; one that fails leaves the library and the selection as they were
\* and settles the promise with false, never by rejecting it.
occurrences(vids, e) == Cardinality({i \in 1..Len(vids) : vids[i] = e})

C27_LibraryUrlsLive ==
  \A i \in 1..Len(videos) : videos[i] # Null => objectUrls[videos[i]] = "live"

\* C28: a wake lock that was acquired and not yet released is the one wakeLock
\* refers to, so that the stopRecording of its recording releases it: no held
\* lock is left with wakeLock cleared or overwritten.
C28_HeldLockReferenced == \A lock \in held : wakeLock = lock

\* C29: the blob the stop handler of a recorder builds holds chunks of that
\* recorder only.
C29_BlobOfOwnChunks ==
  [][\A r \in DOMAIN recorders :
       (recorders[r].onstop # NoMime /\ Recorder(onstop(r)))
         => \A i \in 1..Len(recordedChunks) : recordedChunks[i] = r]_vars

\* C30: the stop handler of a recorder passes its blob to fixWebmDuration exactly
\* when its type is a webm container, and the duration it passes is the time
\* from the construction of that recorder to its stop.
C30_DurationOfSameRecording ==
  [][\A r \in DOMAIN recorders :
       (recorders[r].onstop # NoMime /\ Recorder(onstop(r)))
         => IF recorders[r].onstop[1] = "webm"
            THEN \E f \in BagToSet(finalizing') :
                   /\ f.recorder = r
                   /\ CopiesIn(f, finalizing') = CopiesIn(f, finalizing) + 1
                   /\ f.duration = recorders[r].stopTime - recorders[r].startTime
            ELSE /\ finalizing' = finalizing
                 /\ emitted'[Len(emitted')].blob.fixed = -1]_vars

\* C31: the clips of the library are in the order in which their imports and
\* recordings were begun (object URLs are numbered in the order they are made).
C31_LibraryInInitiationOrder ==
  \A i \in 1..Len(videos), j \in 1..Len(videos) :
    (i < j /\ videos[i] # Null /\ videos[j] # Null) => videos[i] < videos[j]

\* C32: once the recorder component is unmounted no tick timer is running, so
\* that no tick fires after teardown.
C32_NoTimerAfterTeardown == ~mounted => timers = {}

\* C33: whatever pair (progress, total) with 0 <= progress <= total a render
\* event carries, total = 0 included, exportProgress is an integer in 0..100
\* while it is not null.
C33_ProgressIsPercent == exportProgress = NoProgress \/ exportProgress \in 0..100

\* C34: at most one tick timer is running at any time.
C34_AtMostOneTimer == Cardinality(timers) <= 1

\* C35: stopRecording called while no recording is active (here by a tick that
\* finds the cap reached) changes nothing of the session; and a stopRecording
\* that acts leaves isRecording false and queues stop events only for a
\* recorder that was recording, so a later tick or click stops nothing again.
C35_StopIdempotent ==
  [][/\ (/\ ~isRecording
         /\ maxDuration > 0
         /\ now - recordingStartTime >= maxDuration * 1000
         /\ Recorder(tick))
          => UNCHANGED <<recorders, isRecording, durationInterval, timers,
                         recordingDurationInMs, held, releasing, wakeLock>>
     /\ (\/ Recorder(stopRecordingClick)
         \/ (/\ maxDuration > 0
             /\ now - recordingStartTime >= maxDuration * 1000
             /\ Recorder(tick)))
          => /\ ~isRecording'
             /\ \A r \in DOMAIN recorders :
                  recorders'[r] # recorders[r] => recorders[r].state = "recording"]_vars

C35_Witness ==
  /\ ~isRecording
  /\ timers # {}
  /\ mediaRecorder # Null
  /\ recorders[mediaRecorder].pending = <<"dataavailable", "stop">>
  /\ maxDuration > 0
  /\ now - recordingStartTime >= maxDuration * 1000
  /\ currentDuration = formatDuration((now - recordingStartTime) \div 1000)
  /\ recordingDurationInMs < now - recordingStartTime

\* C36: a tick ends the recording only when maxDuration > 0 and the whole
\* seconds elapsed since the recorder in use was constructed have reached
\* maxDuration; with maxDuration = 0 no tick ends it.
C36_CapNeverEarly ==
  [][(isRecording /\ ~isRecording' /\ Recorder(tick))
       => /\ maxDuration > 0
          /\ (now - recorders[mediaRecorder].startTime) \div 1000 >= maxDuration]_vars

C36_Witness ==
  /\ isRecording
  /\ maxDuration = 0
  /\ timers # {}
  /\ now - recordingStartTime >= 1000
  /\ currentDuration = formatDuration((now - recordingStartTime) \div 1000)

\* C37: exportProgress is not null exactly while some exportVideo call is in
\* flight.
C37_ProgressWhileInFlight ==
  (exportProgress # NoProgress) <=> (\E x \in DOMAIN exports : exports[x].pc # "returned")

\* C38: the composition an export delivers is made of the clips the library
\* held when exportVideo was called, in that order.
C38_ComposesLibraryAsCalled ==
  [][\A x \in DOMAIN exports :
       (exports[x].pc \in {"render", "fallback"} /\ Exporter(renderSettled(x, TRUE)))
         => /\ Len(delivered'.track) = Len(exports[x].called)
            /\ \A i \in 1..Len(exports[x].called) :
                 delivered'.track[i].source = exports[x].called[i]]_vars

\* C39: consecutive recordings share no chunk: the blob a recording ends with
\* holds chunks of one recorder only.
C39_NoSharedChunks ==
  \A i \in 1..Len(recordedVideo.chunks), j \in 1..Len(recordedVideo.chunks) :
    recordedVideo.chunks[i] = recordedVideo.chunks[j]

====
